---- MODULE Spec2Model ----
(***************************************************************************)
(* VocabCard extractor: the batch orchestrator (processAll /               *)
(* startProcessing), the file queue and the result sequence.               *)
(*                                                                         *)
(* The repository holds several versions of the App component.  The       *)
(* variable "variant" says which one runs:                                 *)
(*   "A"  src/index.tsx:78          (first App of index.tsx)               *)
(*   "B"  src/index.tsx:462         (second App, ids on append)            *)
(*   "C"  src/index.tsx:797         (third App, no credential check)       *)
(*   "P0" src/unnamed/part_000:87   (key selector, results never cleared)  *)
(*   "P2" src/unnamed/part_002:77   (credential check before busy)         *)
(*   "S"  src/services/processService.ts:196 (results set at batch end)    *)
(*   "M"  src/utils/fileExporter.ts:109 + processImages (modular App)      *)
(*                                                                         *)
(* One action is one synchronous stretch of JavaScript: from an event or   *)
(* the settling of an awaited promise up to the next await.                *)
(***************************************************************************)
EXTENDS Integers, Sequences, FiniteSets, TLC

\* ---- bounds of the model ----
MaxFiles == 2
MaxItems == 3
MaxBatches == 2
MaxStaleQueue == 1
MaxResults == 3
MaxWidth == 2000

Variants == {"A", "B", "C", "P0", "P2", "S", "M"}
RunIds == {"first", "second"}

VARIABLES variant, apiKey, aistudio, sdkThrows,
          fileStatuses, results, isBusy, globalError,
          runs, nextFile, batches, returned,
          items, sheet, archive, downloads,
          box, img, rect, canvas, srcUrl, promise

appVars == <<variant, apiKey, aistudio, sdkThrows, fileStatuses, results,
             isBusy, globalError, runs, nextFile, batches, returned>>
exportVars == <<items, sheet, archive, downloads>>
cropVars == <<box, img, rect, canvas, srcUrl, promise>>
vars == <<appVars, exportVars, cropVars>>

\* ---- features in which the versions differ ----
ClearsResults(v) == v # "P0"
KeyCheck(v) == IF v \in {"A", "B"} THEN "inTry"
               ELSE IF v \in {"P0", "P2"} THEN "beforeBusy" ELSE "none"
EmptyIsError_Never(v) == FALSE
EmptyIsError(v) == v \notin {"S", "M"}
AccumAtEnd(v) == v \in {"S", "M"}
SkipsCompleted_Never(v) == FALSE
SkipsCompleted(v) == v # "M"
IdOnAppend(v) == v \in {"B", "C", "P0"}
HasRemove(v) == v \in {"A", "P2", "S"}
DropWhileBusy(v) == v \in {"A", "P2", "S", "M"}
HasGlobalError(v) == v \notin {"S", "M"}

\* ---- progress values: exact fractions n/d, as 10 + (j+1)/N*90 is ----
P(x) == [n |-> x, d |-> 1]
ItemProgress(v, j, n) ==
  IF v = "M" THEN [n |-> 50 * n + 50 * j, d |-> n]
             ELSE [n |-> 10 * n + 90 * j, d |-> n]
PEq(p, x) == p.n = x * p.d
PLeq(p, q) == p.n * q.d <= q.n * p.d

\* ---- messages ----
NoError == ""
MsgTransport == "request failed"
MsgEmpty == "no cards detected"
MsgExtraction == "Extraction failed"
MsgKeyMissing == "API key missing"
MsgKeyExpired == "API key expired"
MsgInit == "client init failed"

\* ---- small helpers ----
Min(S) == CHOOSE x \in S : \A y \in S : x <= y
Range(s) == {s[k] : k \in 1..Len(s)}
MapAt(s, i, F(_)) == [k \in 1..Len(s) |-> IF k = i THEN F(s[k]) ELSE s[k]]
RemoveAt(s, i) == [k \in 1..(Len(s) - 1) |-> IF k < i THEN s[k] ELSE s[k + 1]]

NewFile(f) == [file |-> f, status |-> "pending", progress |-> P(0), error |-> NoError]

IdleRun == [pc |-> "idle", snap |-> <<>>, i |-> 0, j |-> 0, n |-> 0,
            acc |-> <<>>, fileRes |-> <<>>,
            ncalls |-> 0, keyAtStart |-> TRUE,
            gerrs |-> 0, log |-> <<>>, failed |-> {}, emptied |-> {},
            resp |-> {}, cropFailed |-> {}, attempted |-> {}]

Active(r) == runs[r].pc \in {"reading", "calling", "cropping"}

\* ---- the orchestrator, as functions on the component state s ----
\* s = [fs, res, busy, gerr, run]

\* setFileStatuses(prev => prev.map((s, idx) => idx === i ? {...} : s))
MarkProcessing(v, e) ==
  IF v = "M" THEN [e EXCEPT !.status = "processing"]
  ELSE IF v = "S" THEN [e EXCEPT !.status = "processing", !.progress = P(5)]
  ELSE [e EXCEPT !.status = "processing", !.progress = P(5), !.error = NoError]
MarkCompleted_StaysProcessing(e) == e
MarkCompleted(e) == [e EXCEPT !.status = "completed", !.progress = P(100)]
MarkErrorWith(e, msg) == [e EXCEPT !.status = "error", !.error = msg]

AppendResult_Overwrite(res, item) == <<item>>
AppendResult_Prepend(res, item) == <<item>> \o res
\* setResults(prev => [...prev, newItem]) / fileResults.push(newItem)
AppendResult(res, item) == Append(res, item)

OnCropFailure_StillAppends(s, f, j) ==
  [s EXCEPT !.res = Append(@, [file |-> f, qi |-> s.run.i, item |-> j, id |-> 0]),
            !.run.cropFailed = @ \cup {<<f, j>>}]
\* catch (err) { console.error(...) } around cropImage: the item is skipped
OnCropFailure(s, f, j) == [s EXCEPT !.run.cropFailed = @ \cup {<<f, j>>}]

Renumber_KeepsIds(acc) == acc
\* allExtractedItems.map((item, idx) => ({ ...item, globalId: idx + 1 }))
Renumber(acc) == [k \in 1..Len(acc) |-> [acc[k] EXCEPT !.id = k]]

\* leaving the for loop: results are published (S, M) and the busy flag reset
Finish(v, s) ==
  [s EXCEPT !.res = IF AccumAtEnd(v) THEN Renumber(s.run.acc) ELSE @,
            !.busy = FALSE,
            !.run.pc = "done"]

\* the for loop from index "from" up to its next await
EnterLoop(v, s, from) ==
  LET cand == {k \in from..Len(s.run.snap) :
                 ~SkipsCompleted(v) \/ s.run.snap[k].status # "completed"}
  IN IF cand = {} THEN Finish(v, s)
     ELSE LET k == Min(cand)
              MP(e) == MarkProcessing(v, e)
          IN [s EXCEPT !.fs = MapAt(@, k, MP),
                       !.run.i = k, !.run.j = 0, !.run.n = 0,
                       !.run.fileRes = <<>>,
                       !.run.attempted = @ \cup {s.run.snap[k].file},
                       !.run.pc = "reading"]

FileError_DropsResults(v, s, msg) ==
  LET ME(e) == MarkErrorWith(e, msg)
      t == EnterLoop(v, [s EXCEPT !.fs = MapAt(@, s.run.i, ME)], s.run.i + 1)
  IN [t EXCEPT !.res = <<>>, !.run.acc = <<>>]
FileError_Aborts(v, s, msg) ==
  LET ME(e) == MarkErrorWith(e, msg)
  IN Finish(v, [s EXCEPT !.fs = MapAt(@, s.run.i, ME)])
\* the catch block of one file, then the next iteration
FileError(v, s, msg) ==
  LET ME(e) == MarkErrorWith(e, msg)
  IN EnterLoop(v, [s EXCEPT !.fs = MapAt(@, s.run.i, ME)], s.run.i + 1)

FileCompleted_MarksError(v, s) == FileError(v, s, MsgExtraction)
\* the end of the try block of one file, then the next iteration
FileCompleted(v, s) ==
  EnterLoop(v, [s EXCEPT !.fs = MapAt(@, s.run.i, MarkCompleted),
                         !.run.acc = IF AccumAtEnd(v) THEN @ \o s.run.fileRes ELSE @],
            s.run.i + 1)

\* the component right after its first render
InitApp ==
  /\ variant \in Variants
  /\ apiKey \in BOOLEAN
  /\ aistudio \in (IF variant = "P0" /\ ~apiKey THEN BOOLEAN ELSE {FALSE})
  /\ sdkThrows \in (IF KeyCheck(variant) = "none" /\ ~apiKey THEN BOOLEAN ELSE {FALSE})
  /\ fileStatuses = <<>>
  /\ results = <<>>
  /\ isBusy = FALSE
  /\ globalError = NoError
  /\ runs = [r \in RunIds |-> IdleRun]
  /\ nextFile = 1
  /\ batches = 0
  /\ returned = [f \in {} |-> 0]

\* nothing has been exported
NoExport ==
  /\ items = <<>>
  /\ sheet = <<>>
  /\ archive = {}
  /\ downloads = {}

\* exact fractions n/d
Q(a, b) == [n |-> a, d |-> b]
QTimes(q, k) == [n |-> q.n * k, d |-> q.d]
QEq(p, q) == p.n * q.d = q.n * p.d
QPos(q) == (q.n > 0 /\ q.d > 0) \/ (q.n < 0 /\ q.d < 0)

\* no image has been cropped
NoRect == [done |-> FALSE, sx |-> Q(0, 1), sy |-> Q(0, 1), sw |-> Q(0, 1), sh |-> Q(0, 1)]
\* the state of the promise cropImage returns
Pending(st) == [state |-> st, reason |-> ""]
Rejected(why) == [state |-> "rejected", reason |-> why]
\* a canvas as document.createElement creates it
NoCanvas == [width |-> 300, height |-> 150, dw |-> Q(0, 1), dh |-> Q(0, 1)]
NoCrop ==
  /\ box = <<0, 0, 0, 0>>
  /\ img = [w |-> 1, h |-> 1]
  /\ rect = NoRect
  /\ canvas = NoCanvas
  /\ srcUrl = "none"
  /\ promise = Pending("none")

Init == InitApp /\ NoExport /\ NoCrop


\* ---- the component state seen by one run, and its write-back ----
View(r) == [fs |-> fileStatuses, res |-> results, busy |-> isBusy,
            gerr |-> globalError, run |-> runs[r]]

Commit(r, s) ==
  /\ fileStatuses' = s.fs
  /\ results' = s.res
  /\ isBusy' = s.busy
  /\ globalError' = s.gerr
  /\ runs' = [runs EXCEPT ![r] = s.run]

\* the local variables of a returned invocation are gone at the next event
ForgetDone(rs) == [r \in RunIds |-> IF rs[r].pc = "done" THEN IdleRun ELSE rs[r]]

\* the catch/finally of the outer try: one global error, busy flag reset
GlobalAbort(s, msg) ==
  [s EXCEPT !.gerr = msg, !.busy = FALSE, !.run.gerrs = @ + 1, !.run.pc = "done"]

\* processAll / startProcessing from its first line to its first await.
\* cl is the closure the handler was created with: [fs, busy].
ProcessAllBody(v, s0, cl) ==
  LET s == [s0 EXCEPT !.run = [IdleRun EXCEPT !.snap = cl.fs, !.keyAtStart = apiKey]]
      busy == [s EXCEPT !.busy = TRUE,
                        !.gerr = IF HasGlobalError(v) THEN NoError ELSE @,
                        !.res = IF ClearsResults(v) THEN <<>> ELSE @]
  IN IF Len(cl.fs) = 0 \/ (v # "M" /\ cl.busy) THEN [s0 EXCEPT !.run.pc = "done"]
     ELSE IF KeyCheck(v) = "beforeBusy" /\ ~apiKey
       THEN IF v = "P0" /\ aistudio
              THEN [s EXCEPT !.gerr = NoError, !.run.pc = "done"]
              ELSE [s EXCEPT !.gerr = MsgKeyMissing, !.run.gerrs = @ + 1,
                             !.run.pc = "done"]
     ELSE IF KeyCheck(v) = "inTry" /\ ~apiKey THEN GlobalAbort(busy, MsgKeyMissing)
     ELSE IF v = "C" /\ sdkThrows THEN GlobalAbort(busy, MsgInit)
     ELSE IF v = "S" /\ sdkThrows THEN [busy EXCEPT !.run.pc = "dead"]
     ELSE EnterLoop(v, busy, 1)

\* the start button is rendered
ButtonShown ==
  /\ Len(fileStatuses) > 0
  /\ ~isBusy
  /\ variant = "M" => Len(results) = 0

\* ---- actions ----
\* a click on the start button
ProcessAll ==
  /\ ButtonShown
  /\ batches < MaxBatches
  /\ \A r \in RunIds : ~Active(r)
  /\ batches' = batches + 1
  /\ LET rs == ForgetDone(runs)
         s0 == [View("first") EXCEPT !.run = rs["first"]]
         s1 == ProcessAllBody(variant, s0, [fs |-> fileStatuses, busy |-> isBusy])
     IN /\ fileStatuses' = s1.fs
        /\ results' = s1.res
        /\ isBusy' = s1.busy
        /\ globalError' = s1.gerr
        /\ runs' = [rs EXCEPT !["first"] = s1.run]
  /\ apiKey' \in (IF variant = "P0" /\ ~apiKey /\ aistudio /\ Len(fileStatuses) > 0
                  THEN {apiKey, TRUE} ELSE {apiKey})
  /\ UNCHANGED <<exportVars, cropVars, returned, variant, aistudio, sdkThrows, nextFile>>

\* fileToBase64 settles; on success generateContent is called
ReadSettle(r) ==
  /\ runs[r].pc = "reading"
  /\ \E ok \in BOOLEAN :
       LET s == View(r)
           f == s.run.snap[s.run.i].file
           P20(e) == [e EXCEPT !.progress = P(20)]
       IN IF variant = "M" /\ ~apiKey /\ sdkThrows
            THEN Commit(r, FileError(variant,
                           s,
                           MsgExtraction))
          ELSE IF ok
            THEN Commit(r, [s EXCEPT !.fs = IF variant = "M" THEN MapAt(@, s.run.i, P20) ELSE @,
                                     !.run.ncalls = @ + 1,
                                     !.run.pc = "calling"])
          ELSE Commit(r, FileError(variant,
                           s,
                           IF variant = "M" THEN MsgExtraction ELSE MsgTransport))
  /\ UNCHANGED <<exportVars, cropVars, returned, variant, apiKey, aistudio, sdkThrows, nextFile, batches>>

\* what a recognition call can come back with
CallOutcomes(r) ==
  LET fail(kinds) == {[kind |-> k, n |-> 0] : k \in kinds}
  IN IF ~runs[r].keyAtStart THEN fail({"transport"})
     ELSE fail({"transport", "parse"} \cup (IF variant = "P0" THEN {"entity"} ELSE {}))
          \cup {[kind |-> "items", n |-> n] : n \in 0..MaxItems}

\* generateContent settles and its response is parsed
\* rawItems of the latest response parsed for a file: file |-> rawItems.length
Returned(ret, f, n) == [g \in DOMAIN ret \cup {f} |-> IF g = f THEN n ELSE ret[g]]

CallSettle(r) ==
  /\ runs[r].pc = "calling"
  /\ \E out \in CallOutcomes(r) :
     /\ LET s0 == View(r)
           f == s0.run.snap[s0.run.i].file
           P50(e) == [e EXCEPT !.progress = P(50)]
           s == IF variant = "M" /\ out.kind # "transport"
                  THEN [s0 EXCEPT !.fs = MapAt(@, s0.run.i, P50)] ELSE s0
       IN IF out.kind # "items"
            THEN Commit(r, FileError(variant,
                   [s EXCEPT !.run.failed = @ \cup {f},
                             !.gerr = IF out.kind = "entity" THEN MsgKeyExpired ELSE @,
                             !.run.gerrs = IF out.kind = "entity" THEN @ + 1 ELSE @],
                   IF variant = "M" THEN MsgExtraction ELSE MsgTransport))
          ELSE IF out.n = 0
            THEN LET e == [s EXCEPT !.run.emptied = @ \cup {f}]
                 IN IF EmptyIsError(variant)
                      THEN Commit(r, FileError(variant, e, MsgEmpty))
                      ELSE Commit(r, FileCompleted(variant, e))
          ELSE Commit(r, [s EXCEPT !.run.n = out.n, !.run.j = 1,
                                   !.run.resp = @ \cup {<<f, out.n>>},
                                   !.run.pc = "cropping"])
     /\ returned' = IF out.kind = "items"
                       THEN Returned(returned, runs[r].snap[runs[r].i].file, out.n)
                       ELSE returned
  /\ UNCHANGED <<exportVars, cropVars, variant, apiKey, aistudio, sdkThrows, nextFile, batches>>

\* cropImage of item j settles
CropSettle(r) ==
  /\ runs[r].pc = "cropping"
  /\ \E ok \in BOOLEAN :
       LET s == View(r)
           i == s.run.i
           j == s.run.j
           f == s.run.snap[i].file
           item == [file |-> f, qi |-> i, item |-> j,
                    id |-> IF IdOnAppend(variant) THEN Len(s.res) + 1 ELSE 0]
           IP(e) == [e EXCEPT !.progress = ItemProgress(variant, j, s.run.n)]
           s1 == IF ~ok THEN OnCropFailure(s, f, j)
                 ELSE IF AccumAtEnd(variant)
                   THEN [s EXCEPT !.run.fileRes = AppendResult(@, item),
                                  !.run.log = Append(@, <<f, j>>)]
                 ELSE [s EXCEPT !.res = AppendResult(@, item),
                                !.run.log = Append(@, <<f, j>>)]
           s2 == [s1 EXCEPT !.fs = MapAt(@, i, IP)]
       IN IF j < s.run.n
            THEN Commit(r, [s2 EXCEPT !.run.j = j + 1])
            ELSE Commit(r, FileCompleted(variant, s2))
  /\ UNCHANGED <<exportVars, cropVars, returned, variant, apiKey, aistudio, sdkThrows, nextFile, batches>>

AddFiles_Prepends(k) ==
  /\ ~isBusy \/ DropWhileBusy(variant)
  /\ nextFile + k <= MaxFiles + 1
  /\ variant = "M" => k >= 1
  /\ LET new == [x \in 1..k |-> NewFile(nextFile + x - 1)]
     IN /\ fileStatuses' = IF variant = "M" THEN new ELSE new \o fileStatuses
        /\ results' = IF variant = "M" THEN <<>> ELSE results
  /\ globalError' = IF variant \in {"A", "B", "C", "P2"} THEN NoError ELSE globalError
  /\ nextFile' = nextFile + k
  /\ runs' = ForgetDone(runs)
  /\ UNCHANGED <<exportVars, cropVars, returned, variant, apiKey, aistudio, sdkThrows, isBusy, batches>>
\* addFiles / handleFilesSelected with k image files
AddFiles(k) ==
  /\ ~isBusy \/ DropWhileBusy(variant)
  /\ nextFile + k <= MaxFiles + 1
  /\ variant = "M" => k >= 1
  /\ LET new == [x \in 1..k |-> NewFile(nextFile + x - 1)]
     IN /\ fileStatuses' = IF variant = "M" THEN new ELSE fileStatuses \o new
        /\ results' = IF variant = "M" THEN <<>> ELSE results
  /\ globalError' = IF variant \in {"A", "B", "C", "P2"} THEN NoError ELSE globalError
  /\ nextFile' = nextFile + k
  /\ runs' = ForgetDone(runs)
  /\ UNCHANGED <<exportVars, cropVars, returned, variant, apiKey, aistudio, sdkThrows, isBusy, batches>>

\* the trash button of queue entry idx
RemoveFile(idx) ==
  /\ HasRemove(variant)
  /\ ~isBusy
  /\ idx \in 1..Len(fileStatuses)
  /\ fileStatuses[idx].status # "processing"
  /\ fileStatuses' = RemoveAt(fileStatuses, idx)
  /\ runs' = ForgetDone(runs)
  /\ UNCHANGED <<exportVars, cropVars, returned, variant, apiKey, aistudio, sdkThrows, results, isBusy,
                 globalError, nextFile, batches>>

\* the close button of the global error banner
DismissError ==
  /\ globalError # NoError
  /\ globalError' = NoError
  /\ runs' = ForgetDone(runs)
  /\ UNCHANGED <<exportVars, cropVars, returned, variant, apiKey, aistudio, sdkThrows, fileStatuses, results,
                 isBusy, nextFile, batches>>

Next ==
  \/ ProcessAll
  \/ \E r \in RunIds : ReadSettle(r)
  \/ \E r \in RunIds : CallSettle(r)
  \/ \E r \in RunIds : CropSettle(r)
  \/ \E k \in 0..MaxFiles : AddFiles(k)
  \/ \E idx \in 1..MaxFiles : RemoveFile(idx)
  \/ DismissError

Spec == Init /\ [][Next]_vars


\* processAll called a second time from the render the running batch was
\* started from: that closure still holds isBusy = false and the
\* fileStatuses of that render (setIsBusy(true) only shows in the next
\* render).  Nothing else has run since the first call.
StaleInvoke ==
  /\ runs["first"].pc = "reading"
  /\ Len(runs["first"].snap) <= MaxStaleQueue
  /\ runs["first"].attempted = {runs["first"].snap[runs["first"].i].file}
  /\ LET MP(e) == MarkProcessing(variant, e)
     IN fileStatuses = MapAt(runs["first"].snap, runs["first"].i, MP)
  /\ runs["second"].pc = "idle"
  /\ Commit("second", ProcessAllBody(variant, View("second"),
                                     [fs |-> runs["first"].snap, busy |-> FALSE]))
  /\ UNCHANGED <<exportVars, cropVars, returned, variant, apiKey, aistudio, sdkThrows, nextFile, batches>>

\* the first App of index.tsx, driven as in Spec plus the stale second call
InitReentrant == Init /\ variant = "A"

NextReentrant == Next \/ StaleInvoke

SpecReentrant == InitReentrant /\ [][NextReentrant]_vars

\* ---- the exporter ----
\* exportExcel: one row per result; the sequence number is the position
\* (A, P2) or the stored id (the other versions); nothing is written for
\* an empty result sequence
ExportExcel(v, res) ==
  [k \in 1..Len(res) |-> [index |-> IF v \in {"A", "P2"} THEN k ELSE res[k].id,
                          item |-> <<res[k].file, res[k].item>>]]

\* ---- vocabulary of the properties ----
IdxOf(snap, f) == CHOOSE k \in 1..Len(snap) : snap[k].file = f
InQueueAt(k, f) == k <= Len(fileStatuses) /\ fileStatuses[k].file = f
Keys(res) == [k \in 1..Len(res) |-> <<res[k].file, res[k].item>>]
RespOf(run, f) == IF \E p \in run.resp : p[1] = f
                    THEN (CHOOSE p \in run.resp : p[1] = f)[2] ELSE 0
\* the items of queue file k that were cropped successfully, in adapter order
ItemsOf(run, k) ==
  LET f == run.snap[k].file
      all == [j \in 1..RespOf(run, f) |-> <<f, j>>]
      Kept(x) == x \notin run.cropFailed
  IN SelectSeq(all, Kept)
RECURSIVE ConcatUpTo(_, _)
ConcatUpTo(run, k) == IF k = 0 THEN <<>> ELSE ConcatUpTo(run, k - 1) \o ItemsOf(run, k)
Expected(run) == ConcatUpTo(run, Len(run.snap))
AllCompleted(fs) == Len(fs) > 0 /\ \A k \in 1..Len(fs) : fs[k].status = "completed"
Invoked == batches' = batches + 1

\* C1: invoking processAll when every queued file is completed makes no
\* recognition call and leaves the result sequence as it was.
C1_Idempotent ==
  [][(Invoked /\ variant \in {"A", "P0", "S"} /\ AllCompleted(fileStatuses))
       => (runs'["first"].ncalls = 0 /\ results' = results)]_vars

\* C2: at the end of a processAll run the result sequence is the
\* concatenation, in queue order, of each file's successfully cropped items
\* in the order the adapter returned them.
C2_OrderPreserved ==
  \A r \in RunIds :
    (variant \in {"A", "M"} /\ runs[r].pc = "done")
      => /\ Keys(results) = Expected(runs[r])
         /\ \A k \in 1..Len(results) :
              runs[r].snap[results[k].qi].file = results[k].file
         /\ \A k, l \in 1..Len(results) :
              k < l => \/ results[k].qi < results[l].qi
                       \/ /\ results[k].qi = results[l].qi
                          /\ results[k].item < results[l].item

C2_Witness ==
  /\ variant = "A"
  /\ runs["first"].pc = "done"
  /\ Len(results) >= 3
  /\ results[1].qi # results[Len(results)].qi
  /\ results[1].qi = results[2].qi

\* C3: a result appended while file i was processed is in the result
\* sequence when the batch ends, whatever happened to later files.
C3_PartialResultsKept ==
  \A r \in RunIds :
    (variant \in {"A", "S"} /\ runs[r].pc = "done")
      => \A k \in 1..Len(runs[r].log) :
           \E m \in 1..Len(results) :
             <<results[m].file, results[m].item>> = runs[r].log[k]

C3_Witness ==
  /\ variant \in {"A", "S"}
  /\ runs["first"].pc = "done"
  /\ Len(runs["first"].log) >= 1
  /\ \E f \in runs["first"].failed :
       IdxOf(runs["first"].snap, f) > IdxOf(runs["first"].snap, runs["first"].log[1][1])

\* C4: when the recognition call or the parsing of its response fails for
\* file i, file i ends in status error with a message and every later file
\* of the batch that is not completed is still processed.
C4_FailureIsLocal ==
  \A r \in RunIds :
    (variant \in {"A", "M"} /\ runs[r].pc = "done")
      => \A f \in runs[r].failed :
           LET i == IdxOf(runs[r].snap, f)
           IN /\ variant = "A" => InQueueAt(i, f)
              /\ InQueueAt(i, f) => /\ fileStatuses[i].status = "error"
                                    /\ fileStatuses[i].error # NoError
              /\ \A k \in (i + 1)..Len(runs[r].snap) :
                   runs[r].snap[k].status # "completed"
                     => /\ runs[r].snap[k].file \in runs[r].attempted
                        /\ InQueueAt(k, runs[r].snap[k].file)
                             => fileStatuses[k].status \in {"completed", "error"}

C4_Witness ==
  /\ variant \in {"A", "M"}
  /\ runs["first"].pc = "done"
  /\ \E f \in runs["first"].failed :
       \E k \in 1..Len(fileStatuses) :
         /\ k > IdxOf(runs["first"].snap, f)
         /\ fileStatuses[k].status = "completed"
         /\ fileStatuses[k].file \in runs["first"].attempted


NoResultOf(f) == \A m \in 1..Len(results) : results[m].file # f

\* C5 as stated: a file whose response has zero items ends in status error
\* with a non-empty message, is not completed and adds no result.
C5_EmptyAlwaysError ==
  \A r \in RunIds :
    (variant \in {"A", "S", "M"} /\ runs[r].pc = "done")
      => \A f \in runs[r].emptied :
           LET i == IdxOf(runs[r].snap, f)
           IN /\ InQueueAt(i, f) => /\ fileStatuses[i].status = "error"
                                    /\ fileStatuses[i].error # NoError
              /\ NoResultOf(f)

\* C5 amended: a file whose response has zero items adds no result; it ends
\* in status error with a non-empty message in the versions that test
\* rawItems.length === 0, and completed with progress 100 in the
\* processService.ts App and the modular App.
C5_EmptyPolicy ==
  \A r \in RunIds :
    runs[r].pc = "done"
      => \A f \in runs[r].emptied :
           LET i == IdxOf(runs[r].snap, f)
           IN /\ variant # "M" => InQueueAt(i, f)
              /\ InQueueAt(i, f) =>
                   IF variant \in {"A", "B", "C", "P0", "P2"}
                     THEN /\ fileStatuses[i].status = "error"
                          /\ fileStatuses[i].error # NoError
                     ELSE /\ fileStatuses[i].status = "completed"
                          /\ PEq(fileStatuses[i].progress, 100)
              /\ NoResultOf(f)

C5_Witness ==
  /\ variant = "A"
  /\ runs["first"].pc = "done"
  /\ \E f \in runs["first"].emptied :
       /\ InQueueAt(IdxOf(runs["first"].snap, f), f)
       /\ fileStatuses[IdxOf(runs["first"].snap, f)].error = MsgEmpty

\* C6: a file whose response has N >= 1 items, all cropped successfully,
\* ends completed with progress 100 and adds exactly N results; a queue of
\* such a file with N = 3 followed by a file with 0 items exports 3 rows.
C6_AllCropsSucceed ==
  \A r \in RunIds :
    (variant = "A" /\ runs[r].pc = "done")
      => /\ \A p \in runs[r].resp :
              (\A c \in runs[r].cropFailed : c[1] # p[1])
                => LET i == IdxOf(runs[r].snap, p[1])
                   IN /\ InQueueAt(i, p[1])
                      /\ fileStatuses[i].status = "completed"
                      /\ PEq(fileStatuses[i].progress, 100)
                      /\ Cardinality({m \in 1..Len(results) : results[m].file = p[1]}) = p[2]
         /\ (/\ Len(runs[r].snap) = 2
             /\ runs[r].resp = {<<runs[r].snap[1].file, 3>>}
             /\ runs[r].cropFailed = {}
             /\ runs[r].emptied = {runs[r].snap[2].file})
              => /\ Len(ExportExcel(variant, results)) = 3
                 /\ fileStatuses[2].status = "error"
                 /\ fileStatuses[2].error = MsgEmpty

C6_Witness ==
  /\ variant = "A"
  /\ runs["first"].pc = "done"
  /\ Len(runs["first"].snap) = 2
  /\ runs["first"].resp = {<<runs["first"].snap[1].file, 3>>}
  /\ runs["first"].cropFailed = {}
  /\ runs["first"].emptied = {runs["first"].snap[2].file}
  /\ Len(results) = 3

\* C7: when the crop of item j fails, no result is appended for item j, the
\* remaining items of the file are still cropped, the file ends completed
\* and the batch continues with the next file.
C7_CropFailureSkipsItem ==
  \A r \in RunIds :
    (variant \in {"A", "M"} /\ runs[r].pc = "done")
      => \A c \in runs[r].cropFailed :
           LET f == c[1]
               i == IdxOf(runs[r].snap, f)
           IN /\ \A m \in 1..Len(results) : <<results[m].file, results[m].item>> # c
              /\ \A j \in 1..RespOf(runs[r], f) :
                   \/ <<f, j>> \in runs[r].cropFailed
                   \/ \E m \in 1..Len(results) :
                        <<results[m].file, results[m].item>> = <<f, j>>
              /\ variant = "A" => InQueueAt(i, f)
              /\ InQueueAt(i, f) => fileStatuses[i].status = "completed"
              /\ \A k \in (i + 1)..Len(runs[r].snap) :
                   runs[r].snap[k].status # "completed"
                     => runs[r].snap[k].file \in runs[r].attempted

C7_Witness ==
  /\ variant \in {"A", "M"}
  /\ runs["first"].pc = "done"
  /\ \E c \in runs["first"].cropFailed :
       /\ \E m \in 1..Len(results) :
            /\ results[m].file = c[1]
            /\ results[m].item > c[2]
       /\ \E m \in 1..Len(results) : results[m].qi > IdxOf(runs["first"].snap, c[1])

\* C8: when the API credential is absent, processAll makes no recognition
\* call, changes the status of no queued file and reports exactly one
\* global error.
C8_ConfigAbort ==
  \A r \in RunIds :
    (variant \in {"A", "P2", "C"} /\ runs[r].pc # "idle" /\ ~runs[r].keyAtStart)
      => /\ runs[r].pc = "done"
         /\ runs[r].ncalls = 0
         /\ fileStatuses = runs[r].snap
         /\ runs[r].gerrs = 1
         /\ globalError # NoError

\* C9: at most one recognition call is in flight, and no recognition call
\* is in flight while a crop of another invocation is pending, also when
\* processAll is invoked again while a batch is running.
C9_OneCallInFlight ==
  \A r1, r2 \in RunIds :
    (r1 # r2 /\ runs[r1].pc = "calling")
      => runs[r2].pc \notin {"calling", "cropping"}

Transitions(fs1, fs2) ==
  {<<fs1[k].status, fs2[l].status>> :
     <<k, l>> \in {x \in (1..Len(fs1)) \X (1..Len(fs2)) :
                     /\ fs1[x[1]].file = fs2[x[2]].file
                     /\ fs1[x[1]].status # fs2[x[2]].status}}

ForwardOnly == {<<"pending", "processing">>, <<"processing", "completed">>,
                <<"processing", "error">>}

\* C10 as stated: a status changes only along pending->processing,
\* processing->completed and processing->error.
C10_TerminalStates ==
  [][(variant \in {"A", "M"})
       => (Transitions(fileStatuses, fileStatuses') \subseteq ForwardOnly)]_vars

\* ---- item counts ----
RECURSIVE SumOver(_, _)
SumOver(ret, F) ==
  IF F = {} THEN 0
  ELSE LET f == CHOOSE x \in F : TRUE
       IN (IF f \in DOMAIN ret THEN ret[f] ELSE 0) + SumOver(ret, F \ {f})
QueueFiles(fs) == {fs[k].file : k \in 1..Len(fs)}

\* C11 as stated: the result sequence is never longer than the sum, over the
\* files of the queue, of the number of items the adapter returned for the
\* file, also after reprocessing and after a file was removed.
C11_LengthWithinQueue ==
  variant \in {"A", "P0"}
    => Len(results) <= SumOver(returned, QueueFiles(fileStatuses))

\* C11 amended: the result sequence is never longer than the sum, over all
\* files a response was parsed for (queued or removed since), of the number
\* of items of the file's latest response.
C11_LengthWithinReturned ==
  Len(results) <= SumOver(returned, DOMAIN returned)

C11_Witness ==
  /\ variant = "A"
  /\ Len(fileStatuses) >= 1
  /\ Len(results) > SumOver(returned, QueueFiles(fileStatuses))
  /\ Len(results) < SumOver(returned, DOMAIN returned)

IsPrefix(a, b) == Len(a) <= Len(b) /\ SubSeq(b, 1, Len(a)) = a

\* C12: the result sequence is append-only: in every step the result
\* sequence before the step is a prefix of the result sequence after it,
\* also in the step of a new processAll invocation.
C12_AppendOnly ==
  [][(variant = "A") => IsPrefix(results, results')]_vars

\* ---- the exporters on words and payloads ----
\* a word is the sequence of its characters
Unsafe == {"\\", "/", ":", "*", "?", "\"", "<", ">", "|"}
Words == {<<"a">>, <<"a", "/", "b">>, <<"a", "_", "b">>, <<"a", " ", "b">>, <<" ", "a">>}

RECURSIVE TrimStart(_)
TrimStart(w) == IF Len(w) > 0 /\ w[1] = " " THEN TrimStart(Tail(w)) ELSE w
RECURSIVE TrimEnd(_)
TrimEnd(w) == IF Len(w) > 0 /\ w[Len(w)] = " "
                THEN TrimEnd(SubSeq(w, 1, Len(w) - 1)) ELSE w
\* String.prototype.trim
Trim(w) == TrimEnd(TrimStart(w))

\* word.replace(/_/g, ' ').trim()
FormatWordForExport(w) ==
  Trim([k \in 1..Len(w) |-> IF w[k] = "_" THEN " " ELSE w[k]])

\* item.word.replace(/[\\/:*?"<>|]/g, '_')
Sanitize(w) == [k \in 1..Len(w) |-> IF w[k] \in Unsafe THEN "_" ELSE w[k]]

Jpg(w) == w \o <<".jpg">>

SheetWord_Raw(v, w) == w
\* the word column of the spreadsheet
SheetWord(v, w) == IF v = "M" THEN FormatWordForExport(w) ELSE w

\* the name handed to folder.file
ZipName(v, w) ==
  Jpg(IF v \in {"A", "P2"} THEN Sanitize(w)
      ELSE IF v = "M" THEN FormatWordForExport(w)
      ELSE w)

ZipFile_KeepsBoth(zip, name, data) == zip \cup {[name |-> name, data |-> data]}
\* folder.file(name, data): an entry of the same name is replaced
ZipFile(zip, name, data) ==
  {e \in zip : e.name # name} \cup {[name |-> name, data |-> data]}

\* exportExcel / exportToExcel: results.map(...) into rows
ExportToExcel(v, its) ==
  [k \in 1..Len(its) |->
     [index |-> IF v \in {"A", "P2"} THEN k ELSE its[k].id,
      word |-> SheetWord(v, its[k].word)]]

\* exportZip / exportToZip: results.forEach(item => if (item.blob) ...)
RECURSIVE ZipUpTo(_, _, _)
ZipUpTo(v, its, k) ==
  IF k = 0 THEN {}
  ELSE IF its[k].blob # 0
    THEN ZipFile(ZipUpTo(v, its, k - 1), ZipName(v, its[k].word), its[k].blob)
  ELSE ZipUpTo(v, its, k - 1)
ExportToZip(v, its) == ZipUpTo(v, its, Len(its))

\* the words a version stores: item.word.trim() or item.word
StoredWords(v) == IF v \in {"S", "M"} THEN Words ELSE {w \in Words : Trim(w) = w}

\* result sequences as the orchestrator leaves them: ids are the positions,
\* the payload of the k-th result is k, 0 stands for a result without blob
ResultSeqs(v) ==
  UNION {{[k \in 1..n |-> [id |-> k, word |-> ws[k], blob |-> IF bs[k] THEN k ELSE 0]] :
            ws \in [1..n -> StoredWords(v)], bs \in [1..n -> BOOLEAN]} :
         n \in 0..MaxResults}

InitExport ==
  /\ InitApp
  /\ apiKey
  /\ items \in ResultSeqs(variant)
  /\ sheet = <<>>
  /\ archive = {}
  /\ downloads = {}
  /\ NoCrop

\* the spreadsheet button
DownloadExcel ==
  /\ "excel" \notin downloads
  /\ Len(items) > 0
  /\ sheet' = ExportToExcel(variant, items)
  /\ downloads' = downloads \cup {"excel"}
  /\ UNCHANGED <<appVars, cropVars, items, archive>>

\* the archive button
DownloadZip ==
  /\ "zip" \notin downloads
  /\ Len(items) > 0
  /\ archive' = ExportToZip(variant, items)
  /\ downloads' = downloads \cup {"zip"}
  /\ UNCHANGED <<appVars, cropVars, items, sheet>>

NextExport == DownloadExcel \/ DownloadZip

SpecExport == InitExport /\ [][NextExport]_vars

\* C13 as stated: the spreadsheet of a result sequence of length n has n
\* rows in result order; row k carries sequence number k and the word of the
\* k-th result.
C13_RowsCarryWord ==
  (variant \in {"A", "B", "M"} /\ "excel" \in downloads)
    => /\ Len(sheet) = Len(items)
       /\ \A k \in 1..Len(sheet) : /\ sheet[k].index = k
                                   /\ sheet[k].word = items[k].word

\* C13 amended: n rows in result order, row k carries sequence number k and
\* the word of the k-th result; the modular exporter writes that word with
\* every underscore replaced by a space and then trimmed.
C13_RowsCarryShownWord ==
  ("excel" \in downloads)
    => /\ Len(sheet) = Len(items)
       /\ \A k \in 1..Len(sheet) :
            LET w == items[k].word
                u == [m \in 1..Len(w) |-> IF w[m] = "_" THEN " " ELSE w[m]]
                c == sheet[k].word
            IN /\ sheet[k].index = k
               /\ variant # "M" => c = w
               /\ variant = "M" =>
                    /\ \A m \in 1..Len(c) : c[m] # "_"
                    /\ Len(c) > 0 => (c[1] # " " /\ c[Len(c)] # " ")
                    /\ \E a \in 0..Len(u) : \E b \in a..Len(u) :
                         /\ c = SubSeq(u, a + 1, b)
                         /\ \A m \in (1..a) \cup ((b + 1)..Len(u)) : u[m] = " "

C13_Witness ==
  /\ variant = "M"
  /\ "excel" \in downloads
  /\ Len(items) >= 2
  /\ \E k \in 1..Len(items) : /\ sheet[k].word # items[k].word
                              /\ \E m \in 1..Len(items[k].word) : items[k].word[m] = "_"

\* C14: for every result with a payload whose word occurs once in the result
\* sequence, the archive has exactly one entry whose name without ".jpg" is
\* the word written in that result's spreadsheet row.
C14_NamesMatchSheet ==
  (variant \in {"A", "M"} /\ downloads = {"excel", "zip"})
    => \A k \in 1..Len(items) :
         (/\ items[k].blob # 0
          /\ \A l \in 1..Len(items) : l # k => items[l].word # items[k].word)
           => Cardinality({e \in archive : e.name = Jpg(sheet[k].word)}) = 1

\* C15: every archive entry name is a result's word with each of
\* \ / : * ? " < > | replaced by '_' followed by ".jpg", and no entry name
\* contains one of those characters.
C15_NamesSanitized ==
  (variant \in {"A", "B", "M"} /\ "zip" \in downloads)
    => \A e \in archive :
         /\ \A m \in 1..Len(e.name) : e.name[m] \notin Unsafe
         /\ \E k \in 1..Len(items) :
              /\ items[k].blob # 0
              /\ Len(e.name) = Len(items[k].word) + 1
              /\ e.name[Len(e.name)] = ".jpg"
              /\ \A m \in 1..Len(items[k].word) :
                   e.name[m] = IF items[k].word[m] \in Unsafe
                                 THEN "_" ELSE items[k].word[m]

\* C16: when several results with payloads map to the same archive
\* filename the archive holds one entry of that name, carrying the payload
\* of the last such result; the number of entries is the number of distinct
\* filenames among the results with payloads.
C16_LastWriterWins ==
  (variant \in {"A", "M"} /\ "zip" \in downloads)
    => LET withBlob == {k \in 1..Len(items) : items[k].blob # 0}
           name(k) == ZipName(variant, items[k].word)
       IN /\ \A k \in withBlob :
               LET last == CHOOSE l \in withBlob :
                             /\ name(l) = name(k)
                             /\ \A m \in withBlob : name(m) = name(k) => m <= l
               IN {e \in archive : e.name = name(k)}
                    = {[name |-> name(k), data |-> items[last].blob]}
          /\ Cardinality(archive) = Cardinality({name(k) : k \in withBlob})

C16_Witness ==
  /\ variant = "A"
  /\ "zip" \in downloads
  /\ Len(items) = 3
  /\ \A k \in 1..3 : items[k].blob # 0
  /\ items[1].word # items[2].word
  /\ ZipName(variant, items[1].word) = ZipName(variant, items[2].word)
  /\ Cardinality(archive) = 2

\* ---- cropImage: the normalized box on the decoded image ----
Coords == {0, 100, 300, 1000}
Sizes == {1, 3, 1000}
Boxes == Coords \X Coords \X Coords \X Coords
Images == {[w |-> w, h |-> h] : w \in Sizes, h \in Sizes}

CropRect_Transposed(b, im) ==
  [done |-> TRUE,
   sx |-> QTimes(Q(b[1], 1000), im.w), sy |-> QTimes(Q(b[2], 1000), im.h),
   sw |-> QTimes(Q(b[3] - b[1], 1000), im.w), sh |-> QTimes(Q(b[4] - b[2], 1000), im.h)]
CropRect_WidthFromHeight(b, im) ==
  [done |-> TRUE,
   sx |-> QTimes(Q(b[2], 1000), im.w), sy |-> QTimes(Q(b[1], 1000), im.h),
   sw |-> QTimes(Q(b[4] - b[2], 1000), im.h), sh |-> QTimes(Q(b[3] - b[1], 1000), im.h)]
\* const [ymin, xmin, ymax, xmax] = box; sx = (xmin / 1000) * w; ...
CropRect(b, im) ==
  LET ymin == b[1]
      xmin == b[2]
      ymax == b[3]
      xmax == b[4]
  IN [done |-> TRUE,
      sx |-> QTimes(Q(xmin, 1000), im.w),
      sy |-> QTimes(Q(ymin, 1000), im.h),
      sw |-> QTimes(Q(xmax - xmin, 1000), im.w),
      sh |-> QTimes(Q(ymax - ymin, 1000), im.h)]

\* truncation toward zero of a fraction with positive denominator
Trunc(q) == IF q.n >= 0 THEN q.n \div q.d ELSE -((-q.n) \div q.d)
QMax1(q) == IF q.n >= q.d THEN q ELSE Q(1, 1)
\* assignment to canvas.width / canvas.height: the integer is converted to
\* an unsigned 32-bit one and a value above 2^31 - 1 sets the attribute's
\* default; a negative integer wraps to x + 2^32, which is above that limit
CanvasSet(x, default) == IF x < 0 THEN default ELSE x

\* canvas.width = Math.max(1, sw) (index.tsx) or sw (fileExporter.ts);
\* ctx.drawImage(img, sx, sy, sw, sh, 0, 0, sw, sh)
Raster(v, r) ==
  [width |-> CanvasSet(Trunc(IF v = "M" THEN r.sw ELSE QMax1(r.sw)), 300),
   height |-> CanvasSet(Trunc(IF v = "M" THEN r.sh ELSE QMax1(r.sh)), 150),
   dw |-> r.sw, dh |-> r.sh]

\* cropImage has been called: img.src = URL.createObjectURL(file)
InitCrop ==
  /\ InitApp
  /\ apiKey
  /\ variant \in {"A", "M"}
  /\ NoExport
  /\ box \in Boxes
  /\ img \in Images
  /\ rect = NoRect
  /\ canvas = NoCanvas
  /\ srcUrl = "allocated"
  /\ promise = Pending("loading")

\* a rejection before toBlob; index.tsx revokes the handle first
RejectAtLoad(v, why) ==
  /\ promise' = Rejected(why)
  /\ srcUrl' = IF v = "M" THEN srcUrl ELSE "revoked"

\* img.onload of cropImage: no 2d context, an exception while drawing, or
\* the rectangle is drawn and toBlob is started; fileExporter.ts has no
\* try/catch, so an exception leaves its promise unsettled
CropImage ==
  /\ ~rect.done
  /\ promise.state = "loading"
  /\ \E path \in {"noContext", "drawThrows", "drawn"} :
       IF path = "noContext"
         THEN /\ RejectAtLoad(variant, "Canvas context failed")
              /\ UNCHANGED <<rect, canvas>>
       ELSE /\ rect' = CropRect(box, img)
            /\ canvas' = Raster(variant, rect')
            /\ IF path = "drawn"
                 THEN promise' = Pending("encoding") /\ srcUrl' = srcUrl
               ELSE IF variant = "M"
                 THEN promise' = Pending("abandoned") /\ srcUrl' = srcUrl
               ELSE RejectAtLoad(variant, "exception")
  /\ UNCHANGED <<appVars, exportVars, box, img>>

\* img.onerror: the source image cannot be decoded
ImgError ==
  /\ promise.state = "loading"
  /\ RejectAtLoad(variant, "image load failed")
  /\ UNCHANGED <<appVars, exportVars, box, img, rect, canvas>>

\* the callback of canvas.toBlob, with a blob or with null
ToBlob ==
  /\ promise.state = "encoding"
  /\ \E blob \in BOOLEAN :
       promise' = IF blob THEN [state |-> "resolved", reason |-> ""]
                  ELSE Rejected("Blob creation failed")
  /\ srcUrl' = "revoked"
  /\ UNCHANGED <<appVars, exportVars, box, img, rect, canvas>>

\* the same box cropped from an image twice as wide
CropWider ==
  /\ rect.done
  /\ 2 * img.w <= MaxWidth
  /\ img' = [img EXCEPT !.w = 2 * @]
  /\ rect' = CropRect(box, img')
  /\ canvas' = Raster(variant, rect')
  /\ UNCHANGED <<appVars, exportVars, box, srcUrl, promise>>

NextCrop == CropImage \/ ImgError \/ ToBlob \/ CropWider

SpecCrop == InitCrop /\ [][NextCrop]_vars

\* C17: for every box [ymin,xmin,ymax,xmax] and source size W x H the crop
\* rectangle is sx = xmin*W/1000, sy = ymin*H/1000, sw = (xmax-xmin)*W/1000,
\* sh = (ymax-ymin)*H/1000; box [100,100,300,300] on 1000 x 1000 gives
\* (100,100,200,200).
C17_RectFormula ==
  rect.done
    => /\ QEq(rect.sx, Q(box[2] * img.w, 1000))
       /\ QEq(rect.sy, Q(box[1] * img.h, 1000))
       /\ QEq(rect.sw, Q((box[4] - box[2]) * img.w, 1000))
       /\ QEq(rect.sh, Q((box[3] - box[1]) * img.h, 1000))
       /\ (box = <<100, 100, 300, 300>> /\ img = [w |-> 1000, h |-> 1000])
            => /\ QEq(rect.sx, Q(100, 1)) /\ QEq(rect.sy, Q(100, 1))
               /\ QEq(rect.sw, Q(200, 1)) /\ QEq(rect.sh, Q(200, 1))

C17_Witness ==
  /\ rect.done
  /\ box = <<100, 100, 300, 300>>
  /\ img = [w |-> 1000, h |-> 1000]
  /\ rect.sw = Q(200000, 1000)

\* C18: for a box with xmax > xmin and ymax > ymin and W, H >= 1 the crop
\* width and height are > 0, and replacing W by 2W doubles sx and sw and
\* leaves sy and sh unchanged.
C18_PositiveAndLinear ==
  [][/\ (rect'.done /\ box'[4] > box'[2] /\ box'[3] > box'[1])
          => (QPos(rect'.sw) /\ QPos(rect'.sh))
     /\ (rect.done /\ rect'.done /\ box' = box /\ img'.w = 2 * img.w /\ img'.h = img.h
           /\ box[4] > box[2] /\ box[3] > box[1])
          => /\ QEq(rect'.sx, QTimes(rect.sx, 2))
             /\ QEq(rect'.sw, QTimes(rect.sw, 2))
             /\ QEq(rect'.sy, rect.sy)
             /\ QEq(rect'.sh, rect.sh)]_vars

C18_Witness ==
  /\ rect.done
  /\ img.w = 2000
  /\ box[4] > box[2] /\ box[3] > box[1] /\ box[2] > 0
  /\ rect.sx.n = box[2] * 2000

\* C19: whenever the progress of a queued file is 100 its status is
\* completed.
C19_HundredMeansCompleted ==
  variant \in {"A", "M"}
    => \A k \in 1..Len(fileStatuses) :
         PEq(fileStatuses[k].progress, 100) => fileStatuses[k].status = "completed"

\* the files whose progress went down from queue fs1 to queue fs2
Decreased(fs1, fs2) ==
  {fs1[k].file : k \in {x \in 1..Len(fs1) :
      \E l \in 1..Len(fs2) : /\ fs2[l].file = fs1[x].file
                             /\ ~PLeq(fs1[x].progress, fs2[l].progress)}}

\* C20: the progress of a queued file never decreases in any step, also
\* across repeated invocations, and after item j of N (j counted from 0) it
\* is 10 + (j+1)/N*90.
C20_ProgressMonotone ==
  [][(variant \in {"A", "M"})
       => /\ Decreased(fileStatuses, fileStatuses') = {}
          /\ \A r \in RunIds :
               (runs'[r].pc = "cropping" /\ runs'[r].j >= 2
                  /\ runs'[r].i <= Len(fileStatuses')
                  /\ fileStatuses'[runs'[r].i].file = runs'[r].snap[runs'[r].i].file)
                 => fileStatuses'[runs'[r].i].progress
                      = Q(10 * runs'[r].n + 90 * (runs'[r].j - 1), runs'[r].n)]_vars

\* ---- every awaited promise settles ----
\* the file read, the recognition call and the crop eventually resolve or
\* reject; the user's own actions are under no obligation
Settling ==
  /\ WF_vars(\E r \in RunIds : ReadSettle(r))
  /\ WF_vars(\E r \in RunIds : CallSettle(r))
  /\ WF_vars(\E r \in RunIds : CropSettle(r))

SpecLive == Spec /\ Settling

\* C21: if every recognition call and every crop eventually returns, every
\* processAll invocation finishes: the busy flag returns to false and no
\* file is left in status processing, also when constructing the
\* recognition client throws.
C21_BatchFinishes ==
  (variant \in {"A", "S"} /\ isBusy)
    ~> (/\ ~isBusy
        /\ \A k \in 1..Len(fileStatuses) : fileStatuses[k].status # "processing")

\* C22: every cropImage call releases the handle of the source image on
\* every exit path: once the crop has settled, or can no longer settle, the
\* handle is revoked.
C22_HandleReleased ==
  (variant \in {"A", "M"}
     /\ promise.state \in {"resolved", "rejected", "abandoned"})
    => srcUrl = "revoked"

\* C23: for every box, also with xmax = xmin or ymax = ymin, the size of the
\* canvas and the width and height passed to drawImage are at least 1.
C23_AtLeastOnePixel ==
  (variant \in {"A", "M"} /\ rect.done
     /\ promise.state \in {"encoding", "resolved"})
    => /\ canvas.width >= 1 /\ canvas.height >= 1
       /\ canvas.dw.n >= canvas.dw.d
       /\ canvas.dh.n >= canvas.dh.d

\* C24: a crop whose box has xmax < xmin or ymax < ymin fails: once
\* cropImage has drawn and settled, it has rejected.
C24_NegativeBoxRejects ==
  (variant = "A" /\ (box[4] < box[2] \/ box[3] < box[1])
     /\ rect.done /\ promise.state \in {"resolved", "rejected"})
    => promise.state = "rejected"

\* C25: whenever results are shown, the result at position k carries id k,
\* so the ids are exactly 1..n; this holds where the id is given on append
\* (second App of index.tsx, part_000) and where the results are renumbered
\* at the end of the batch (processService.ts), also over repeated batches.
C25_IdIsPosition ==
  variant \in {"B", "P0", "S"}
    => \A k \in 1..Len(results) : results[k].id = k

\* results of a second batch are shown, numbered after those that precede
C25_Witness ==
  /\ variant \in {"B", "P0", "S"}
  /\ batches = 2
  /\ Len(results) >= 2
  /\ results[Len(results)].id = Len(results)
  /\ \E r \in RunIds : runs[r].pc = "done" /\ Len(runs[r].log) >= 1

\* a step of the orchestrator: the start of a batch or a settle step of it
OrchestratorStep ==
  \/ batches' # batches
  \/ \E r \in RunIds : Active(r) /\ runs'[r] # runs[r]

\* what a step leaves of the queue: added files come after the entries
\* there were, files that stay keep their order, and an entry that stays
\* is changed by the orchestrator only
QueueStableStep ==
  /\ nextFile' # nextFile
       => /\ Len(fileStatuses') >= Len(fileStatuses)
          /\ SubSeq(fileStatuses', 1, Len(fileStatuses)) = fileStatuses
  /\ \A a, b \in 1..Len(fileStatuses) :
       (/\ a < b
        /\ fileStatuses[a].file \in QueueFiles(fileStatuses')
        /\ fileStatuses[b].file \in QueueFiles(fileStatuses'))
         => IdxOf(fileStatuses', fileStatuses[a].file)
              < IdxOf(fileStatuses', fileStatuses[b].file)
  /\ \A a \in 1..Len(fileStatuses) :
       (/\ fileStatuses[a].file \in QueueFiles(fileStatuses')
        /\ fileStatuses'[IdxOf(fileStatuses', fileStatuses[a].file)]
             # fileStatuses[a])
         => OrchestratorStep

\* C26: the queue is never reordered: adding files appends them after the
\* existing entries and leaves every existing entry as it is, two files that
\* stay in the queue keep their relative order, and the status or progress
\* of an entry that stays changes only in a step of the orchestrator.
C26_QueueStable == [][QueueStableStep]_vars

\* ---- the credential is read anew by every invocation ----
\* process.env.API_KEY is looked up at the start of each processAll; between
\* two invocations the environment can lose it
KeyLost ==
  /\ apiKey
  /\ ~isBusy
  /\ \A r \in RunIds : ~Active(r)
  /\ apiKey' = FALSE
  /\ UNCHANGED <<exportVars, cropVars, variant, aistudio, sdkThrows,
                 fileStatuses, results, isBusy, globalError, runs, nextFile,
                 batches, returned>>

InitRekey == Init /\ variant \in {"A", "P2"} /\ apiKey

NextRekey == Next \/ KeyLost

SpecRekey == InitRekey /\ [][NextRekey]_vars

\* C27: an invocation of processAll that aborts because the credential is
\* missing leaves the result sequence as it was: the results of an earlier
\* batch are still there after it.
C27_AbortKeepsResults ==
  [][(/\ variant \in {"A", "P2"}
      /\ batches' # batches
      /\ ~apiKey)
       => results' = results]_vars

\* the files from which run r appended a result
Contributors(run) == {run.log[k][1] : k \in 1..Len(run.log)}

\* C28: a file that ends a batch in error contributed no result in that
\* batch: at the end of a batch no result appended during it comes from a
\* file whose status is error.
C28_ErrorFilesGiveNothing ==
  \A r \in RunIds :
    runs[r].pc = "done"
      => \A k \in 1..Len(fileStatuses) :
           fileStatuses[k].status = "error"
             => fileStatuses[k].file \notin Contributors(runs[r])

\* a batch ends with one file in error and a result from another file
C28_Witness ==
  \E r \in RunIds :
    /\ runs[r].pc = "done"
    /\ Contributors(runs[r]) # {}
    /\ \E k \in 1..Len(fileStatuses) :
         /\ fileStatuses[k].status = "error"
         /\ fileStatuses[k].file \in runs[r].attempted

\* the files of run r whose response had items and whose crops all failed
AllCropsFailed(run) ==
  {p[1] : p \in {q \in run.resp :
                   /\ q[2] >= 1
                   /\ \A j \in 1..q[2] : <<q[1], j>> \in run.cropFailed}}

\* a file of the batch, still at its place in the queue, is completed at 100
EndsCompleted(run, f) ==
  LET i == IdxOf(run.snap, f)
  IN InQueueAt(i, f) => /\ fileStatuses[i].status = "completed"
                        /\ PEq(fileStatuses[i].progress, 100)

\* C29 as stated: a file whose response has N >= 1 items and whose crops all
\* fail ends completed with progress 100 and no result, whereas a file with
\* an empty response ends in error.
C29_EmptyDiffers ==
  \A r \in RunIds :
    (variant \in {"A", "M"} /\ runs[r].pc = "done")
      => /\ \A f \in AllCropsFailed(runs[r]) :
              EndsCompleted(runs[r], f) /\ NoResultOf(f)
         /\ \A f \in runs[r].emptied :
              InQueueAt(IdxOf(runs[r].snap, f), f)
                => fileStatuses[IdxOf(runs[r].snap, f)].status = "error"

\* C29 amended: a file whose response has N >= 1 items and whose crops all
\* fail ends completed with progress 100 and no result; a file with an empty
\* response ends in error in the first App of index.tsx, and completed with
\* progress 100, like the former, in processImages of the modular App.
C29_AllCropsFail ==
  \A r \in RunIds :
    (variant \in {"A", "M"} /\ runs[r].pc = "done")
      => /\ \A f \in AllCropsFailed(runs[r]) :
              EndsCompleted(runs[r], f) /\ NoResultOf(f)
         /\ \A f \in runs[r].emptied :
              InQueueAt(IdxOf(runs[r].snap, f), f)
                => IF variant = "A"
                     THEN fileStatuses[IdxOf(runs[r].snap, f)].status = "error"
                     ELSE EndsCompleted(runs[r], f)

\* a batch ends with a file whose three crops all failed, still in the queue
C29_Witness ==
  \E r \in RunIds :
    /\ variant \in {"A", "M"}
    /\ runs[r].pc = "done"
    /\ \E f \in AllCropsFailed(runs[r]) :
         /\ InQueueAt(IdxOf(runs[r].snap, f), f)
         /\ <<f, 3>> \in runs[r].resp

\* the queue entries that a step changes
Touched == {k \in 1..Len(fileStatuses) :
              k > Len(fileStatuses') \/ fileStatuses'[k] # fileStatuses[k]}

\* C30: files added while a batch is running are appended as pending and
\* are not processed by that batch, and they do not disturb it: every status
\* or progress update of the batch lands on the file the batch is
\* processing and leaves every other queue entry as it was.
C30_AddWhileBusy ==
  [][variant = "A" =>
       \A r \in RunIds :
         Active(r) =>
           /\ Len(fileStatuses) >= Len(runs[r].snap)
           /\ \A k \in 1..Len(fileStatuses) :
                k > Len(runs[r].snap) => fileStatuses[k] = NewFile(fileStatuses[k].file)
           /\ nextFile' # nextFile
                => SubSeq(fileStatuses', 1, Len(fileStatuses)) = fileStatuses
           /\ runs'[r] # runs[r]
                => /\ Len(fileStatuses') = Len(fileStatuses)
                   /\ \A k \in Touched :
                        /\ k \in {runs[r].i, runs'[r].i}
                        /\ k <= Len(runs[r].snap)
                        /\ fileStatuses[k].file = runs[r].snap[k].file
                        /\ fileStatuses'[k].file = fileStatuses[k].file
    ]_vars

\* a batch over one file ends completed while a file dropped during it
\* waits as pending behind it
C30_Witness ==
  /\ variant = "A"
  /\ runs["first"].pc = "done"
  /\ Len(runs["first"].snap) = 1
  /\ Len(fileStatuses) = 2
  /\ fileStatuses[1].status = "completed"
  /\ fileStatuses[1].file = runs["first"].snap[1].file
  /\ fileStatuses[2] = NewFile(fileStatuses[2].file)
  /\ Len(results) >= 1

====
